---- MODULE Spec2Model ----
(***************************************************************************)
(* Model of the Loki push client: Handle -> entries channel -> run (the    *)
(* dispatcher goroutine, one batch per tenant) -> sendBatch (retry loop    *)
(* around send) and Stop (sync.Once + WaitGroup).                          *)
(*                                                                         *)
(* Time is a discrete clock `now` in milliseconds.  Receiving an entry,    *)
(* scanning the batches and taking the quit signal take no time; time      *)
(* passes while the dispatcher waits in select with nothing ready and      *)
(* while it is inside sendBatch (network round trips and backoff sleeps).  *)
(***************************************************************************)
EXTENDS Integers, Sequences, FiniteSets, TLC

VARIABLES
    batches,     \* run: batches map[string]*batch (a function tenantID -> batch)
    pc,          \* position of the run goroutine
    ret,         \* which call site of sendBatch is active: "size", "tick", "drain"
    cur,         \* run: the entry e received by the select case being executed
    scan,        \* tenants a `for ... range batches` loop has still to visit
    tenant,      \* sendBatch: its tenantID argument
    numRetries,  \* backoff: retries consumed so far
    status,      \* sendBatch: var status int
    err,         \* sendBatch: var err error (TRUE = non-nil)
    results,     \* statuses returned by the send calls of the running sendBatch
    logged,      \* the error-level line the running sendBatch has logged
    quit,        \* Client.quit is closed
    once,        \* Client.once has run
    closes,      \* number of close(c.quit) executed
    wg,          \* Client.wg counter
    stopPc,      \* position of each Stop caller
    entries,     \* Client.entries: entries offered by blocked Handle callers
    hcount,      \* number of Handle calls made
    accepted,    \* the entries received by run, in order
    now,         \* the clock, ms
    tickPending, \* maxWaitCheck.C holds a tick (buffer of one)
    sent,        \* log: one record per sendBatch call
    rejects,     \* line texts json.Marshal fails on
    cfg,         \* Client.cfg.TenantID and Client.externalLabels
    buf,         \* sendBatch: buf, the encoded batch
    req,         \* send: req, the request of the last attempt of the running sendBatch
    caller       \* the label set of the last Handle call: as passed, and as the caller holds it afterwards

vars == <<batches, pc, ret, cur, scan, tenant, numRetries, status, err, results,
          logged, quit, once, closes, wg, stopPc, entries, hcount, accepted, now,
          tickPending, sent, rejects, cfg, buf, req, caller>>

---------------------------------------------------------------------------
\* Bounds and configuration values of the model.

\* number of Handle calls the producer makes
MaxEntries == 2

\* cfg.BackoffConfig.MaxRetries
MaxRetries == 2

\* cfg.BatchSize, bytes
BatchSize == 4

\* cfg.BatchWait, ms
BatchWait == 5

\* number of steps the clock makes
MaxClockSteps == 2

\* run: minWaitCheckFrequency := 10 * time.Millisecond
MinWaitCheckFrequency == 10

ReservedLabelTenantID == "__tenant_id__"

JSONContentType == "application/json"

\* cfg.TenantID
TenantID == "t0"

\* cfg.ExternalLabels.LabelSet
ExternalLabels == ("env" :> "p")

\* the configurations a client is built with: static tenant or none, external
\* labels or none
Configs ==
    { [TenantID |-> t, ExternalLabels |-> x] :
         t \in {"", TenantID}, x \in {<<>>, ExternalLabels} }

\* goroutines that call Stop
Stoppers == {"s1", "s2"}

\* label sets and line texts handed to Handle
LabelSetsIn ==
    { ("job" :> "x"),
      ("job" :> "x") @@ (ReservedLabelTenantID :> "t1") }

Lines == {"a", "bbbbb"}

\* number of entries added to the batch built entry by entry
MaxAdds == 3

\* label sets of the entries added to that batch
BatchLabelSets ==
    { ("job" :> "x"), ("job" :> "y"), ("env" :> "p") @@ ("job" :> "x") }

\* line texts a failing marshaller rejects
RejectedLines == {"bbbbb"}

\* c.client.Do returns an error instead of a response
NoResponse == 0

\* the outcome of one request: no response, or the status code of the response
Responses == {NoResponse, 200, 400, 429, 500}

NoEntry == [tenantID |-> "-", labels |-> <<>>, value |-> <<>>]
NoTenant == "-"

Min(a, b) == IF a < b THEN a ELSE b

---------------------------------------------------------------------------
\* Label sets (model.LabelSet) and Handle.

\* label names in the sorted order LabelSet.String prints them
LabelNames == <<"__tenant_id__", "env", "job">>

RECURSIVE LabelPairs(_, _)
LabelPairs(ls, i) ==
    IF i > Len(LabelNames) THEN ""
    ELSE LET n == LabelNames[i]
             rest == LabelPairs(ls, i + 1)
         IN IF n \in DOMAIN ls
            THEN n \o "=\"" \o ls[n] \o "\"" \o (IF rest = "" THEN "" ELSE ", " \o rest)
            ELSE rest

\* model.LabelSet.String: {name="value", ...} sorted by name
String(ls) == "{" \o LabelPairs(ls, 1) \o "}"

\* model.LabelSet.Merge: the receiver's labels, overridden by those of other
Merge(l, other) == other @@ l

\* delete(ls, key)
DeleteLabel(ls, key) == [n \in DOMAIN ls \ {key} |-> ls[n]]

\* Handle holds its label set by reference: m.heap is the sequence of the maps
\* that exist (m.heap[1] is the caller's), m.ref the one ls refers to.
\* model.LabelSet.Clone: a new map with the same labels
Clone(m) == [heap |-> Append(m.heap, m.heap[m.ref]), ref |-> Len(m.heap) + 1]

\* the key is deleted from the map ls refers to, without the Clone
DeleteInPlace(m, key) ==
    [heap |-> [m.heap EXCEPT ![m.ref] = DeleteLabel(@, key)], ref |-> m.ref]

\* the label set is cloned and the key is left in it
CloneOnly(m, key) == Clone(m)

\* Handle: ls = ls.Clone(); delete(ls, key)
CloneWithout(m, key) ==
    LET c == Clone(m)
    IN [heap |-> [c.heap EXCEPT ![c.ref] = DeleteLabel(@, key)], ref |-> c.ref]

getTenantID(labels) ==
    IF ReservedLabelTenantID \in DOMAIN labels THEN labels[ReservedLabelTenantID]
    ELSE IF cfg.TenantID # "" THEN cfg.TenantID
    ELSE ""

\* Handle(ls, t, s): the entry it puts on c.entries, and the caller's label
\* set as the call leaves it
HandleCall(ls, t, s) ==
    LET own == [heap |-> <<ls>>, ref |-> 1]
        merged == IF Cardinality(DOMAIN cfg.ExternalLabels) > 0
                  THEN [heap |-> Append(own.heap, Merge(cfg.ExternalLabels, ls)), ref |-> 2]
                  ELSE own
        tenantID == getTenantID(merged.heap[merged.ref])
        stripped == IF ReservedLabelTenantID \in DOMAIN merged.heap[merged.ref]
                    THEN CloneWithout(merged, ReservedLabelTenantID) ELSE merged
    IN [entry |-> [tenantID |-> tenantID, labels |-> stripped.heap[stripped.ref],
                   value |-> <<ToString(t), s>>],
        caller |-> stripped.heap[1]]

\* the entry Handle(ls, t, s) puts on c.entries
HandleEntry(ls, t, s) == HandleCall(ls, t, s).entry

---------------------------------------------------------------------------
\* batch

\* an entry for an existing stream is put in front of the values of the stream
addPrepend(b, entry) ==
    LET labels == String(entry.labels)
    IN [b EXCEPT
          !.bytes = @ + Len(entry.value[2]),
          !.streams =
              IF labels \in DOMAIN @
              THEN [@ EXCEPT ![labels].Values = <<entry.value>> \o @]
              ELSE @ @@ (labels :> [Labels |-> entry.labels, Values |-> <<entry.value>>])]

\* an entry for an existing stream replaces the values of the stream
addOverwrite(b, entry) ==
    LET labels == String(entry.labels)
    IN [b EXCEPT
          !.bytes = @ + Len(entry.value[2]),
          !.streams =
              IF labels \in DOMAIN @
              THEN [@ EXCEPT ![labels].Values = <<entry.value>>]
              ELSE @ @@ (labels :> [Labels |-> entry.labels, Values |-> <<entry.value>>])]

\* the size grows by the length of the value pair, not of the line
addPairLen(b, entry) ==
    LET labels == String(entry.labels)
    IN [b EXCEPT
          !.bytes = @ + Len(entry.value),
          !.streams =
              IF labels \in DOMAIN @
              THEN [@ EXCEPT ![labels].Values = Append(@, entry.value)]
              ELSE @ @@ (labels :> [Labels |-> entry.labels, Values |-> <<entry.value>>])]

add(b, entry) ==
    LET labels == String(entry.labels)
    IN [b EXCEPT
          !.bytes = @ + Len(entry.value[2]),
          !.streams =
              IF labels \in DOMAIN @
              THEN [@ EXCEPT ![labels].Values = Append(@, entry.value)]
              ELSE @ @@ (labels :> [Labels |-> entry.labels, Values |-> <<entry.value>>])]

\* the entry is not added to the new batch
newBatchEmpty(entry, t) == [streams |-> <<>>, bytes |-> 0, createdAt |-> t]

newBatch(entry, t) == add([streams |-> <<>>, bytes |-> 0, createdAt |-> t], entry)

sizeBytes(b) == b.bytes

sizeBytesAfter(b, entry) == b.bytes + Len(entry.value)

\* the operands of the subtraction swapped
ageSwapped(b, t) == b.createdAt - t

age(b, t) == t - b.createdAt

\* the values of all streams of b
BatchValues(b) ==
    UNION { { b.streams[k].Values[i] : i \in 1..Len(b.streams[k].Values) } : k \in DOMAIN b.streams }

\* the timestamps of the entries of b (each Handle call has its own)
BatchEntries(b) == { v[1] : v \in BatchValues(b) }

RECURSIVE SumLens(_, _)
SumLens(streams, keys) ==
    IF keys = {} THEN 0
    ELSE LET k == CHOOSE x \in keys : TRUE
         IN Len(streams[k].Values) + SumLens(streams, keys \ {k})

\* the push request (its streams, in no particular order) and the entry count
createPushRequest(b) ==
    [Streams |-> { b.streams[k] : k \in DOMAIN b.streams },
     entriesCount |-> SumLens(b.streams, DOMAIN b.streams)]

\* the error of json.Marshal is dropped
encodeJSONNoError(b) ==
    LET push == createPushRequest(b)
    IN [buf |-> push.Streams, entriesCount |-> push.entriesCount, err |-> FALSE]

\* json.Marshal of the push request
encodeJSON(b) ==
    LET push == createPushRequest(b)
    IN IF \E v \in BatchValues(b) : v[2] \in rejects
       THEN [buf |-> {}, entriesCount |-> 0, err |-> TRUE]
       ELSE [buf |-> push.Streams, entriesCount |-> push.entriesCount, err |-> FALSE]

---------------------------------------------------------------------------
\* backoff policy and send

\* backoff.Ongoing: retries remain
Ongoing(n) == n < MaxRetries

\* no request has been made
NoRequest == [Header |-> <<>>, Body |-> {}]

\* the tenant header is set whatever the tenant ID is
NewRequestAlwaysScoped(tenantID, body) ==
    [Header |-> ("Content-Type" :> JSONContentType) @@ ("X-Scope-OrgID" :> tenantID),
     Body |-> body]

\* send: the request it builds
NewRequest(tenantID, body) ==
    [Header |-> ("Content-Type" :> JSONContentType)
                @@ (IF tenantID # "" THEN ("X-Scope-OrgID" :> tenantID) ELSE <<>>),
     Body |-> body]

\* send: the status and error it returns for a response of the remote end
send(resp) ==
    IF resp = NoResponse THEN [status |-> -1, err |-> TRUE]
    ELSE [status |-> resp, err |-> (resp \div 100 # 2)]

\* the loop breaks on 4xx only, so a 2xx is retried
breaksOn4xx(st) == st > 0 /\ st # 429 /\ st \div 100 = 4

\* the loop breaks on success only, so a 400 is retried
breaksOnSuccess(st) == st \div 100 = 2

\* the conjunction written as a disjunction: every status breaks the loop
breaksOr(st) == st > 0 \/ st # 429 \/ st \div 100 # 5

\* sendBatch: the condition under which the retry loop breaks
breaks(st) == st > 0 /\ st # 429 /\ st \div 100 # 5

\* run: the period of the maxWaitCheck ticker
MaxWaitCheckFrequency ==
    IF BatchWait \div 10 < MinWaitCheckFrequency
    THEN MinWaitCheckFrequency
    ELSE BatchWait \div 10

\* the clock advances from one firing of the ticker to the next
TimeStep == MaxWaitCheckFrequency

\* the clock stops here
MaxTime == MaxClockSteps * TimeStep

\* the next instant after t at which the ticker fires
NextTick(t) == ((t \div MaxWaitCheckFrequency) + 1) * MaxWaitCheckFrequency

\* every batch is stored under the configured tenant
KeyStatic(e) == TenantID

\* run: the key of the batch an entry goes to, batches[e.tenantID]
Key(e) == e.tenantID

\* the delete is missing
DeleteNothing(m, k) == m

\* delete(batches, tenantID)
Delete(m, k) == [t \in DOMAIN m \ {k} |-> m[t]]

\* sendBatch runs in a goroutine of its own: run is back at its select while
\* the retry loop is going on
SelectingWhileSending(p) == p \in {"select", "send"}

\* run goes on serving its select after the quit case has returned
SelectingAfterQuit(p) == p \in {"select", "done"}

\* run is at its select statement, the only place where it takes an event
Selecting(p) == p = "select"

\* Stop returns without waiting for run
WaitDoneNoWait(n) == TRUE

\* sync.WaitGroup.Wait: it returns when the counter is zero
WaitDone(n) == n = 0

\* the function is run on every call
OnceDoAlways(done) == TRUE

\* sync.Once.Do: whether the function is run
OnceDo(done) == ~done

---------------------------------------------------------------------------
\* Initial state: NewWithLogger has returned, run is at its select.

InitCommon ==
    /\ batches = <<>>
    /\ pc = "select"
    /\ ret = "-"
    /\ cur = NoEntry
    /\ scan = {}
    /\ tenant = NoTenant
    /\ numRetries = 0
    /\ status = 0
    /\ err = FALSE
    /\ results = <<>>
    /\ logged = "-"
    /\ quit = FALSE
    /\ once = FALSE
    /\ closes = 0
    /\ wg = 1
    /\ stopPc = [s \in Stoppers |-> "idle"]
    /\ entries = {}
    /\ hcount = 0
    /\ accepted = <<>>
    /\ now = 0
    /\ tickPending = FALSE
    /\ sent = <<>>
    /\ buf = {}
    /\ req = NoRequest
    /\ caller = [arg |-> <<>>, ls |-> <<>>]

\* the configured client
Configured == cfg = [TenantID |-> TenantID, ExternalLabels |-> ExternalLabels]

\* json.Marshal accepts every push request built from strings
Init == InitCommon /\ Configured /\ rejects = {}

\* a marshaller that may fail on some line texts
InitEnc == InitCommon /\ Configured /\ rejects \in SUBSET RejectedLines

\* a client of any configuration
InitCfg == InitCommon /\ cfg \in Configs /\ rejects = {}

---------------------------------------------------------------------------
\* Handle and Stop (the callers' goroutines)

\* Handle up to the channel send, where the caller blocks; the producer
\* makes its next call when the previous one has returned
Handle(ls, s) ==
    /\ hcount < MaxEntries
    /\ entries = {}
    /\ hcount' = hcount + 1
    /\ entries' = entries \cup {HandleEntry(ls, hcount + 1, s)}
    /\ caller' = [arg |-> ls, ls |-> HandleCall(ls, hcount + 1, s).caller]
    /\ UNCHANGED <<batches, pc, ret, cur, scan, tenant, numRetries, status, err,
                   results, logged, quit, once, closes, wg, stopPc, accepted, now,
                   tickPending, sent, rejects, cfg, buf, req>>

\* Stop: c.once.Do(func() { close(c.quit) }), then the caller is in c.wg.Wait()
Stop(s) ==
    /\ stopPc[s] = "idle"
    /\ stopPc' = [stopPc EXCEPT ![s] = "wait"]
    /\ IF OnceDo(once)
       THEN quit' = TRUE /\ closes' = closes + 1 /\ once' = TRUE
       ELSE UNCHANGED <<quit, closes, once>>
    /\ UNCHANGED <<batches, pc, ret, cur, scan, tenant, numRetries, status, err,
                   results, logged, wg, entries, hcount, accepted, now, tickPending,
                   sent, rejects, cfg, buf, req, caller>>

\* c.wg.Wait() returns
StopReturn(s) ==
    /\ stopPc[s] = "wait"
    /\ WaitDone(wg)
    /\ stopPc' = [stopPc EXCEPT ![s] = "returned"]
    /\ UNCHANGED <<batches, pc, ret, cur, scan, tenant, numRetries, status, err,
                   results, logged, quit, once, closes, wg, entries, hcount, accepted,
                   now, tickPending, sent, rejects, cfg, buf, req, caller>>

---------------------------------------------------------------------------
\* sendBatch

\* sendBatch(tenantID, batches[tenantID]) up to the head of the retry loop:
\* encode, return on an encoding error, else start the backoff
SendBatchBegin(tenantID, cause) ==
    LET b == batches[tenantID]
        enc == encodeJSON(b)
        rec == [tenantID |-> tenantID, entries |-> BatchEntries(b),
                cause |-> cause, attempted |-> FALSE,
                entriesCount |-> createPushRequest(b).entriesCount]
    IN /\ tenant' = tenantID
       /\ ret' = cause
       /\ sent' = Append(sent, rec)
       /\ numRetries' = 0
       /\ status' = 0
       /\ err' = FALSE
       /\ results' = <<>>
       /\ buf' = enc.buf
       /\ req' = NoRequest
       /\ logged' = IF enc.err THEN "error encoding batch" ELSE "-"
       /\ pc' = IF enc.err \/ ~Ongoing(0) THEN "ret" ELSE "send"

\* one iteration of the retry loop: send, break or backoff.Wait; when the
\* loop ends, the final error is logged if err is non-nil
SendAttempt(resp) ==
    /\ pc = "send"
    /\ LET r == send(resp)
           retries == IF breaks(r.status) THEN numRetries ELSE numRetries + 1
           over == breaks(r.status) \/ ~Ongoing(retries)
       IN /\ status' = r.status
          /\ err' = r.err
          /\ results' = Append(results, r.status)
          /\ numRetries' = retries
          /\ req' = NewRequest(tenant, buf)
          /\ sent' = [sent EXCEPT ![Len(sent)].attempted = TRUE]
          /\ logged' = IF over /\ r.err THEN "final error sending batch" ELSE "-"
          /\ pc' = IF over THEN "ret" ELSE "send"
    /\ UNCHANGED <<batches, ret, cur, scan, tenant, quit, once, closes, wg,
                   stopPc, entries, hcount, accepted, now, tickPending, rejects, cfg, buf, caller>>

\* sendBatch has returned: the statement after the call, at each call site
SendBatchReturn ==
    /\ pc = "ret"
    /\ \/ /\ ret = "size"
          /\ batches' = [batches EXCEPT ![Key(cur)] = newBatch(cur, now)]
          /\ pc' = "select"
          /\ UNCHANGED wg
       \/ /\ ret = "tick"
          /\ batches' = Delete(batches, tenant)
          /\ pc' = IF scan = {} THEN "select" ELSE "tick"
          /\ UNCHANGED wg
       \/ /\ ret = "drain"
          /\ UNCHANGED batches
          /\ pc' = IF scan = {} THEN "done" ELSE "drain"
          /\ wg' = IF scan = {} THEN wg - 1 ELSE wg
    /\ cur' = NoEntry
    /\ tenant' = NoTenant
    /\ ret' = "-"
    /\ numRetries' = 0
    /\ status' = 0
    /\ err' = FALSE
    /\ results' = <<>>
    /\ buf' = {}
    /\ req' = NoRequest
    /\ logged' = "-"
    /\ UNCHANGED <<scan, quit, once, closes, stopPc, entries, hcount, accepted,
                   now, tickPending, sent, rejects, cfg, caller>>

---------------------------------------------------------------------------
\* run

\* case e := <-c.entries
RecvEntry(e) ==
    /\ Selecting(pc)
    /\ e \in entries
    /\ entries' = entries \ {e}
    /\ accepted' = Append(accepted, e)
    /\ IF Key(e) \notin DOMAIN batches
       THEN /\ batches' = batches @@ (Key(e) :> newBatch(e, now))
            /\ UNCHANGED <<pc, ret, cur, tenant, numRetries, status, err, results,
                          logged, sent, buf, req>>
       ELSE IF sizeBytesAfter(batches[Key(e)], e) > BatchSize
       THEN /\ SendBatchBegin(Key(e), "size")
            /\ cur' = e
            /\ UNCHANGED batches
       ELSE /\ batches' = [batches EXCEPT ![Key(e)] = add(@, e)]
            /\ UNCHANGED <<pc, ret, cur, tenant, numRetries, status, err, results,
                          logged, sent, buf, req>>
    /\ UNCHANGED <<scan, quit, once, closes, wg, stopPc, hcount, now,
                   tickPending, rejects, cfg, caller>>

\* case <-maxWaitCheck.C: start ranging over the batches
Tick ==
    /\ Selecting(pc)
    /\ tickPending
    /\ tickPending' = FALSE
    /\ scan' = DOMAIN batches
    /\ pc' = IF DOMAIN batches = {} THEN "select" ELSE "tick"
    /\ UNCHANGED <<batches, ret, cur, tenant, numRetries, status, err, results, logged,
                   quit, once, closes, wg, stopPc, entries, hcount, accepted,
                   now, sent, rejects, cfg, buf, req, caller>>

\* one iteration of the range loop of the tick case
TickScan(t) ==
    /\ pc = "tick"
    /\ t \in scan
    /\ scan' = scan \ {t}
    /\ IF age(batches[t], now) < BatchWait
       THEN /\ pc' = IF scan' = {} THEN "select" ELSE "tick"
            /\ UNCHANGED <<ret, tenant, numRetries, status, err, results,
                          logged, sent, buf, req>>
       ELSE SendBatchBegin(t, "tick")
    /\ UNCHANGED <<batches, cur, quit, once, closes, wg, stopPc, entries, hcount,
                   accepted, now, tickPending, rejects, cfg, caller>>

\* case <-c.quit: return, which starts the deferred function
Quit ==
    /\ Selecting(pc)
    /\ quit
    /\ scan' = DOMAIN batches
    /\ pc' = IF DOMAIN batches = {} THEN "done" ELSE "drain"
    /\ wg' = IF DOMAIN batches = {} THEN wg - 1 ELSE wg
    /\ UNCHANGED <<batches, ret, cur, tenant, numRetries, status, err, results, logged,
                   quit, once, closes, stopPc, entries, hcount, accepted, now,
                   tickPending, sent, rejects, cfg, buf, req, caller>>

\* one iteration of the range loop of the deferred function
DrainScan(t) ==
    /\ pc = "drain"
    /\ t \in scan
    /\ scan' = scan \ {t}
    /\ SendBatchBegin(t, "drain")
    /\ UNCHANGED <<batches, cur, quit, once, closes, wg, stopPc, entries, hcount,
                   accepted, now, tickPending, rejects, cfg, caller>>

---------------------------------------------------------------------------
\* the clock and the ticker

\* Time passes while run waits in select with nothing ready (it then stops at
\* the next tick, which wakes it) and while sendBatch is in progress (ticks
\* that find the channel full are dropped).
Advance ==
    /\ \/ pc = "send"
       \/ pc = "select" /\ ~tickPending /\ ~quit /\ entries = {}
    /\ LET t == IF pc = "select" THEN Min(now + TimeStep, NextTick(now))
                ELSE now + TimeStep
       IN /\ t <= MaxTime
          /\ now' = t
          /\ tickPending' = (tickPending \/ t >= NextTick(now))
    /\ UNCHANGED <<batches, pc, ret, cur, scan, tenant, numRetries, status, err,
                   results, logged, quit, once, closes, wg, stopPc, entries, hcount,
                   accepted, sent, rejects, cfg, buf, req, caller>>

---------------------------------------------------------------------------
Next ==
    \/ \E ls \in LabelSetsIn, s \in Lines : Handle(ls, s)
    \/ \E s \in Stoppers : Stop(s)
    \/ \E s \in Stoppers : StopReturn(s)
    \/ \E e \in entries : RecvEntry(e)
    \/ Tick
    \/ \E t \in scan : TickScan(t)
    \/ Quit
    \/ \E t \in scan : DrainScan(t)
    \/ \E resp \in Responses : SendAttempt(resp)
    \/ SendBatchReturn
    \/ Advance

Spec == Init /\ [][Next]_vars

SpecEnc == InitEnc /\ [][Next]_vars

\* The steps of Next that need no time to pass: every flush is by overflow or
\* by the drain, as when all of it happens before the first tick.
NextCfg ==
    \/ \E ls \in LabelSetsIn, s \in Lines : Handle(ls, s)
    \/ \E s \in Stoppers : Stop(s)
    \/ \E s \in Stoppers : StopReturn(s)
    \/ \E e \in entries : RecvEntry(e)
    \/ Quit
    \/ \E t \in scan : DrainScan(t)
    \/ \E resp \in Responses : SendAttempt(resp)
    \/ SendBatchReturn

\* clients of every configuration, before the first tick
SpecCfg == InitCfg /\ [][NextCfg]_vars

\* clients of every configuration
SpecCfgTimed == InitCfg /\ [][Next]_vars

\* A batch built as newBatch(e1) followed by add(e2), add(e3), ...: the batch
\* is batches[TenantID], the entries added are recorded in accepted.
BatchAdd(ls, s) ==
    /\ hcount < MaxAdds
    /\ LET e == [tenantID |-> TenantID, labels |-> ls, value |-> <<ToString(hcount + 1), s>>]
       IN /\ batches' = IF TenantID \in DOMAIN batches
                         THEN [batches EXCEPT ![TenantID] = add(@, e)]
                         ELSE (TenantID :> newBatch(e, now))
          /\ accepted' = Append(accepted, e)
    /\ hcount' = hcount + 1
    /\ UNCHANGED <<pc, ret, cur, scan, tenant, numRetries, status, err, results,
                   logged, quit, once, closes, wg, stopPc, entries, now,
                   tickPending, sent, rejects, cfg, buf, req, caller>>

NextBatch == \E ls \in BatchLabelSets, s \in Lines : BatchAdd(ls, s)

SpecBatch == Init /\ [][NextBatch]_vars

\* every request ends (c.cfg.Timeout bounds it) and every backoff sleep ends,
\* so an iteration of the retry loop that has started completes
SpecFair == Spec /\ WF_vars(\E resp \in Responses : SendAttempt(resp))

---------------------------------------------------------------------------
\* Properties

\* the timestamps of the entries run has received
AcceptedIds == { accepted[i].value[1] : i \in 1..Len(accepted) }

\* some caller of Stop has returned
StopReturned == \E s \in Stoppers : stopPc[s] = "returned"

\* C1: once Stop has returned, every entry run received is in a batch that was
\* handed to sendBatch and for which at least one send was attempted.
C1_DrainOnStop ==
    StopReturned =>
        \A id \in AcceptedIds :
            \E j \in 1..Len(sent) : id \in sent[j].entries /\ sent[j].attempted

\* C1 witness: Stop has returned after a drain that sent a batch, all entries received
C1_Witness ==
    /\ StopReturned
    /\ Len(accepted) = MaxEntries
    /\ \E j \in 1..Len(sent) : sent[j].cause = "drain" /\ sent[j].attempted

\* C2: when an entry arrives for a tenant with a pending batch and the
\* accumulated size plus the entry's line would exceed BatchSize, the pending
\* batch is handed to sendBatch with its earlier entries only, and the entry
\* then is the only entry of a fresh batch of that tenant.
C2_FlushBeforeOverflow ==
    [][ /\ \A e \in entries :
             ( /\ accepted' = Append(accepted, e)
               /\ e.tenantID \in DOMAIN batches
               /\ batches[e.tenantID].bytes + Len(e.value[2]) > BatchSize )
             => ( /\ pc' \in {"send", "ret"}
                  /\ cur' = e
                  /\ Len(sent') = Len(sent) + 1
                  /\ sent'[Len(sent')].tenantID = e.tenantID
                  /\ sent'[Len(sent')].entries = BatchEntries(batches[e.tenantID])
                  /\ e.value[1] \notin sent'[Len(sent')].entries )
        /\ (pc = "ret" /\ ret = "size" /\ pc' = "select")
             => BatchValues(batches'[cur.tenantID]) = {cur.value}
      ]_vars

\* C3: every pending batch that holds more than one entry has sizeBytes() at
\* most BatchSize.
C3_SizeCap ==
    \A t \in DOMAIN batches :
        Cardinality(BatchValues(batches[t])) > 1 => batches[t].bytes <= BatchSize

\* the tenants whose batch is pending: in the map and not handed to sendBatch
Pending ==
    IF pc \in {"drain", "done"} \/ ret = "drain" THEN {}
    ELSE DOMAIN batches \ (IF pc \in {"send", "ret"} THEN {tenant} ELSE {})

\* a step that hands a batch to sendBatch
Handoff == Len(sent') = Len(sent) + 1

ClaimRetryable(st) == st <= 0 \/ st = 429 \/ (st >= 500 /\ st <= 599)

\* a 2xx status
ClaimSuccess(st) == st >= 200 /\ st <= 299

AllRetryable == \A i \in 1..Len(results) : ClaimRetryable(results[i])

\* C5: if the first k attempts of a sendBatch end in a retryable result and
\* attempt k+1 returns 2xx, the loop makes exactly k+1 attempts and logs no
\* final error; after fewer retryable results than the budget it goes on.
C5_RetryThenSuccess ==
    /\ \A k \in 0..(Len(results) - 1) :
          ( /\ \A i \in 1..k : ClaimRetryable(results[i])
            /\ ClaimSuccess(results[k + 1]) )
          => (pc = "ret" /\ Len(results) = k + 1 /\ logged = "-")
    /\ (pc \in {"send", "ret"} /\ results # <<>> /\ AllRetryable
            /\ Len(results) < MaxRetries) => pc = "send"

\* C5 witness: 500 then 200, two attempts, nothing logged
C5_Witness == pc = "ret" /\ results = <<500, 200>> /\ logged = "-"

\* C6: an attempt whose status is neither a connection failure nor 429 nor
\* 5xx is the last one of its sendBatch, and if it is not 2xx the final
\* error is logged.
C6_TerminalStops ==
    \A i \in 1..Len(results) :
        ~ClaimRetryable(results[i]) =>
            /\ i = Len(results)
            /\ pc = "ret"
            /\ (~ClaimSuccess(results[i]) => logged = "final error sending batch")

\* C6 witness: a single attempt answered 400, final error logged
C6_Witness ==
    pc = "ret" /\ results = <<400>> /\ logged = "final error sending batch"

\* the safety part of C7
RetryBounded ==
    /\ Len(results) <= MaxRetries
    /\ pc = "send" => (numRetries < MaxRetries /\ Len(results) = numRetries)
    /\ (pc = "ret" /\ results # <<>> /\ AllRetryable)
          => (Len(results) = MaxRetries /\ logged = "final error sending batch")
    /\ \A i, j \in 1..Len(sent) : i # j => sent[i].entries \cap sent[j].entries = {}

\* C7: sendBatch terminates; an attempt is made only while retries remain, the
\* attempts never exceed MaxRetries, a loop whose attempts all end retryable
\* exits after MaxRetries attempts with the final error logged, and no batch
\* is handed to sendBatch again.
C7_BoundedRetry == []RetryBounded /\ ((pc = "send") ~> (pc = "ret"))

\* C7 witness: the retries are exhausted, final error logged
C7_Witness ==
    /\ pc = "ret" /\ Len(results) = MaxRetries /\ AllRetryable
    /\ logged = "final error sending batch"

\* the records of the batches the deferred loop of run has sent
DrainRecords == { j \in 1..Len(sent) : sent[j].cause = "drain" }

\* C8: for any number of Stop calls, quit is closed once, every call returns
\* only after run has exited and its deferred loop has passed every remaining
\* batch through sendBatch, and the deferred loop sends each batch once.
C8_StopIdempotent ==
    /\ closes <= 1
    /\ wg \in {0, 1}
    /\ \A s \in Stoppers : stopPc[s] # "idle" => quit
    /\ \A s \in Stoppers :
          stopPc[s] = "returned" =>
             /\ pc = "done"
             /\ \A t \in DOMAIN batches :
                   \E j \in DrainRecords :
                      /\ sent[j].tenantID = t
                      /\ sent[j].entries = BatchEntries(batches[t])
    /\ \A i, j \in DrainRecords : sent[i].tenantID = sent[j].tenantID => i = j

\* C8 witness: both Stop calls have returned after a drain that sent a batch
C8_Witness ==
    /\ \A s \in Stoppers : stopPc[s] = "returned"
    /\ DrainRecords # {}

\* the tenants whose batch run can still hand to sendBatch
Live ==
    IF pc \in {"select", "tick"} THEN DOMAIN batches
    ELSE IF pc = "drain" THEN scan
    ELSE {}

\* C9: no entry is in two batches handed to sendBatch, and when run handles
\* its next event no batch it can still hand over holds an entry of a batch
\* already handed over, whatever the outcome of that sendBatch.
C9_NoRequeue ==
    /\ \A i, j \in 1..Len(sent) : i # j => sent[i].entries \cap sent[j].entries = {}
    /\ \A t \in Live : \A j \in 1..Len(sent) :
          BatchEntries(batches[t]) \cap sent[j].entries = {}

\* C9 witness: a batch flushed on size overflow failed to encode, and the
\* tenant has its fresh batch pending
C9_Witness ==
    /\ pc = "select"
    /\ \E j \in 1..Len(sent) :
          /\ sent[j].cause = "size"
          /\ ~sent[j].attempted
          /\ sent[j].tenantID \in DOMAIN batches

\* every entry of the batch stored under t, and of every batch sent for t, was
\* accepted with tenantID t
RoutedByTenant ==
    /\ \A t \in DOMAIN batches : \A v \in BatchValues(batches[t]) :
          \E i \in 1..Len(accepted) : accepted[i].value = v /\ accepted[i].tenantID = t
    /\ \A j \in 1..Len(sent) : \A id \in sent[j].entries :
          \E i \in 1..Len(accepted) :
             accepted[i].value[1] = id /\ accepted[i].tenantID = sent[j].tenantID

\* C10: the batch stored under tenant T, and every batch sent for T, holds
\* only entries accepted with tenantID T, and handling an entry of tenant A
\* leaves the pending batch of every other tenant unchanged.
C10_TenantIsolation ==
    [][ /\ RoutedByTenant'
        /\ \A e \in entries : accepted' = Append(accepted, e) =>
              \A t \in DOMAIN batches \ {e.tenantID} :
                 t \in DOMAIN batches' /\ batches'[t] = batches[t]
        /\ (pc = "ret" /\ ret = "size" /\ pc' = "select") =>
              \A t \in DOMAIN batches \ {cur.tenantID} :
                 t \in DOMAIN batches' /\ batches'[t] = batches[t]
      ]_vars

\* C10 witness: two tenants have a pending batch each
C10_Witness ==
    /\ Cardinality(DOMAIN batches) = 2
    /\ \A t \in DOMAIN batches : BatchValues(batches[t]) # {}

---------------------------------------------------------------------------
\* Handle: tenant resolution and the label set

\* the label set Handle works on: the caller's labels layered on the external ones
MergedLabels(ls) ==
    [n \in DOMAIN cfg.ExternalLabels \cup DOMAIN ls |->
        IF n \in DOMAIN ls THEN ls[n] ELSE cfg.ExternalLabels[n]]

\* the entries of the last Handle call, offered or received
LastHandled ==
    { e \in entries \cup { accepted[i] : i \in 1..Len(accepted) } :
         e.value[1] = ToString(hcount) }

\* C11: the tenant ID of an entry is the value of __tenant_id__ in the merged
\* label set if that key is present, else the configured tenant ID if it is
\* non-empty, else ""; a request carries X-Scope-OrgID, with the tenant ID of
\* its batch, if and only if that tenant ID is non-empty.
C11_TenantResolution ==
    /\ \A e \in LastHandled :
          LET m == MergedLabels(caller.arg)
          IN e.tenantID = (IF ReservedLabelTenantID \in DOMAIN m THEN m[ReservedLabelTenantID]
                           ELSE IF cfg.TenantID # "" THEN cfg.TenantID
                           ELSE "")
    /\ req # NoRequest =>
          /\ sent[Len(sent)].attempted /\ sent[Len(sent)].tenantID = tenant
          /\ ("X-Scope-OrgID" \in DOMAIN req.Header) <=> (tenant # "")
          /\ tenant # "" => req.Header["X-Scope-OrgID"] = tenant

\* C11 witness: no tenant is configured and the entry had no reserved label;
\* its request has gone out without the header
C11_Witness ==
    /\ cfg.TenantID = ""
    /\ req # NoRequest
    /\ tenant = ""
    /\ "X-Scope-OrgID" \notin DOMAIN req.Header
    /\ ReservedLabelTenantID \notin DOMAIN caller.arg
    /\ ToString(hcount) \in sent[Len(sent)].entries

\* the label sets of the streams of every pending batch and of every payload
StreamLabels ==
    UNION { { batches[t].streams[k].Labels : k \in DOMAIN batches[t].streams } :
               t \in DOMAIN batches }
    \cup { st.Labels : st \in buf \cup req.Body }

\* C12: no stream of a pending batch or of a payload has __tenant_id__ among
\* its labels, with or without external labels; an entry handed in with
\* __tenant_id__ = v leaves Handle with tenant v and its other labels, and a
\* request that carries it has X-Scope-OrgID: v.
C12_TenantLabelStripped ==
    /\ \A ls \in StreamLabels : ReservedLabelTenantID \notin DOMAIN ls
    /\ \A e \in entries : ReservedLabelTenantID \notin DOMAIN e.labels
    /\ ReservedLabelTenantID \in DOMAIN caller.arg =>
          /\ \A e \in LastHandled :
                /\ e.tenantID = caller.arg[ReservedLabelTenantID]
                /\ DOMAIN e.labels = DOMAIN MergedLabels(caller.arg) \ {ReservedLabelTenantID}
                /\ \A n \in DOMAIN e.labels : e.labels[n] = MergedLabels(caller.arg)[n]
          /\ (req # NoRequest /\ ToString(hcount) \in sent[Len(sent)].entries) =>
                /\ req.Header["X-Scope-OrgID"] = caller.arg[ReservedLabelTenantID]
                /\ \E st \in req.Body : \E n \in 1..Len(st.Values) :
                      st.Values[n][1] = ToString(hcount)

\* C12 witness: the entry of a call with __tenant_id__ = t1 has gone out in a
\* request scoped to t1 whose only stream has the label job alone
C12_Witness ==
    /\ ReservedLabelTenantID \in DOMAIN caller.arg
    /\ caller.arg[ReservedLabelTenantID] = "t1"
    /\ req # NoRequest
    /\ ToString(hcount) \in sent[Len(sent)].entries
    /\ req.Header["X-Scope-OrgID"] = "t1"
    /\ \E st \in req.Body : DOMAIN st.Labels = {"job"}

\* C13: after a Handle call the label set the caller passed has the keys and
\* values it had before the call.
C13_CallerLabelsUntouched ==
    /\ DOMAIN caller.ls = DOMAIN caller.arg
    /\ \A n \in DOMAIN caller.arg : caller.ls[n] = caller.arg[n]

\* C13 witness: no external labels are configured and the call passed a label
\* set with __tenant_id__, which the entry does not have
C13_Witness ==
    /\ Cardinality(DOMAIN cfg.ExternalLabels) = 0
    /\ ReservedLabelTenantID \in DOMAIN caller.arg
    /\ \E e \in LastHandled : ReservedLabelTenantID \notin DOMAIN e.labels

---------------------------------------------------------------------------
\* batch

RECURSIVE LineBytes(_)
\* the sum of the lengths of the line texts of a sequence of values
LineBytes(values) ==
    IF values = <<>> THEN 0 ELSE Len(Head(values)[2]) + LineBytes(Tail(values))

RECURSIVE StreamsLineBytes(_, _)
StreamsLineBytes(streams, keys) ==
    IF keys = {} THEN 0
    ELSE LET k == CHOOSE x \in keys : TRUE
         IN LineBytes(streams[k].Values) + StreamsLineBytes(streams, keys \ {k})

\* C14: sizeBytes() of every batch is the sum of the lengths of the line texts
\* of its entries; labels and timestamps are not counted.
C14_SizeIsLineBytes ==
    \A t \in DOMAIN batches :
        sizeBytes(batches[t]) = StreamsLineBytes(batches[t].streams, DOMAIN batches[t].streams)

\* C14 witness: a batch of three entries in two streams, lines of 1, 5 and 1 bytes
C14_Witness ==
    \E t \in DOMAIN batches :
        /\ Cardinality(BatchValues(batches[t])) = 3
        /\ Cardinality(DOMAIN batches[t].streams) = 2
        /\ sizeBytes(batches[t]) = 7

\* the values of the entries added with the serialized label set k, in the order added
AddedValues(k) ==
    LET sel == SelectSeq(accepted, LAMBDA e : String(e.labels) = k)
    IN [i \in 1..Len(sel) |-> sel[i].value]

\* C15: a batch has exactly one stream for each distinct serialized label set
\* among the entries added to it, each stream has the label set it is stored
\* under and holds the values of the entries with that label set in the order
\* they were added, and the push request has exactly these streams and counts
\* every entry.
C15_OneStreamPerLabelSet ==
    \A t \in DOMAIN batches :
        LET b == batches[t]
            push == createPushRequest(b)
        IN /\ DOMAIN b.streams = { String(accepted[i].labels) : i \in 1..Len(accepted) }
           /\ \A k \in DOMAIN b.streams :
                 /\ String(b.streams[k].Labels) = k
                 /\ b.streams[k].Values = AddedValues(k)
           /\ push.Streams = { b.streams[k] : k \in DOMAIN b.streams }
           /\ Cardinality(push.Streams) = Cardinality(DOMAIN b.streams)
           /\ push.entriesCount = Len(accepted)

\* C15 witness: three entries with identical labels, one stream with the
\* three value pairs in order
C15_Witness ==
    \E t \in DOMAIN batches :
        /\ Cardinality(DOMAIN batches[t].streams) = 1
        /\ \E k \in DOMAIN batches[t].streams :
              /\ Len(batches[t].streams[k].Values) = 3
              /\ \A i \in 1..3 : batches[t].streams[k].Values[i][1] = ToString(i)

---------------------------------------------------------------------------
\* the dispatcher

\* a step of a caller of Handle or of Stop
CallerStep == hcount' # hcount \/ stopPc' # stopPc

\* C16: from the moment run calls sendBatch until it executes the statement
\* after the call, it receives no entry, handles no tick, takes no quit signal
\* and starts no other sendBatch, so one sendBatch at most is in progress; and
\* the callers of Handle and Stop never touch the batches.
C16_SendBlocksDispatcher ==
    [][ /\ (pc \in {"send", "ret"} /\ pc' \in {"send", "ret"}) =>
              /\ accepted' = accepted
              /\ entries \subseteq entries'
              /\ batches' = batches
              /\ Len(sent') = Len(sent)
              /\ tenant' = tenant /\ ret' = ret /\ scan' = scan
              /\ tickPending => tickPending'
        /\ Handoff => (pc \notin {"send", "ret"} /\ pc' \in {"send", "ret"})
        /\ CallerStep => (batches' = batches /\ sent' = sent /\ pc' = pc)
      ]_vars

\* C16 witness: sendBatch is retrying while a Handle caller is blocked on the
\* channel, a tick is waiting and Stop has closed quit
C16_Witness ==
    /\ pc = "send" /\ results # <<>>
    /\ entries # {}
    /\ tickPending
    /\ quit

\* the sendBatch call that was given the entry with timestamp id, 0 if none was
SentIn(id) ==
    IF \E j \in 1..Len(sent) : id \in sent[j].entries
    THEN CHOOSE j \in 1..Len(sent) : id \in sent[j].entries
    ELSE 0

\* v comes before w in the sequence
Precedes(values, v, w) ==
    \E m, n \in 1..Len(values) : m < n /\ values[m] = v /\ values[n] = w

\* the streams of run's map (the batch being sent is still in it), of the
\* encoded batch and of the request
AllStreams ==
    UNION { { batches[t].streams[k] : k \in DOMAIN batches[t].streams } : t \in DOMAIN batches }
    \cup buf \cup req.Body

\* C17: for entries e1, e2 of one tenant, e1 received before e2: when e2 has
\* been handed to sendBatch so has e1, in the same call or in an earlier one,
\* and every call but the last of the log has made its attempts (the calls are
\* logged in the order they start, and only the last can be in progress); in
\* every stream of a batch, of an encoded batch and of a request that holds
\* both, e1 comes before e2, and a request for both with the same labels has
\* them in one stream.
C17_PerTenantOrder ==
    /\ \A j \in 1..Len(sent) : (j < Len(sent)) => sent[j].attempted
    /\ \A i, j \in 1..Len(accepted) :
          (i < j /\ accepted[i].tenantID = accepted[j].tenantID) =>
             LET e1 == accepted[i]
                 e2 == accepted[j]
                 a == SentIn(e1.value[1])
                 b == SentIn(e2.value[1])
             IN /\ b # 0 => (a # 0 /\ a <= b)
                /\ \A st \in AllStreams :
                      (\E m, n \in 1..Len(st.Values) :
                          st.Values[m] = e1.value /\ st.Values[n] = e2.value)
                      => Precedes(st.Values, e1.value, e2.value)
                /\ (req # NoRequest /\ a = Len(sent) /\ b = Len(sent)
                       /\ e1.labels = e2.labels) =>
                      \E st \in req.Body : Precedes(st.Values, e1.value, e2.value)

\* C17 witness: two entries of one tenant went out in two requests, the
\* request of the first was over before the second was handed to sendBatch
C17_Witness ==
    /\ Len(accepted) = 2 /\ Len(sent) = 2
    /\ accepted[1].tenantID = accepted[2].tenantID
    /\ sent[1].entries = {accepted[1].value[1]} /\ sent[1].attempted
    /\ sent[2].entries = {accepted[2].value[1]} /\ sent[2].attempted

---------------------------------------------------------------------------
\* encoding failure

\* the sendBatch calls whose batch holds a line the marshaller rejects
Unencodable ==
    { j \in 1..Len(sent) :
         \E i \in 1..Len(accepted) :
            accepted[i].value[1] \in sent[j].entries /\ accepted[i].value[2] \in rejects }

\* C18: a sendBatch whose batch fails to encode makes no request and does not
\* start the backoff, it logs the encoding error and returns; run then drops
\* the batch as after any other sendBatch, so no entry of it is in a batch run
\* can still hand over, and none is handed over twice.
C18_EncodeFailureAbandons ==
    \A j \in Unencodable :
        /\ ~sent[j].attempted
        /\ (j = Len(sent) /\ pc \in {"send", "ret"}) =>
              /\ pc = "ret"
              /\ req = NoRequest
              /\ results = <<>> /\ numRetries = 0
              /\ logged = "error encoding batch"
        /\ \A t \in Live : BatchEntries(batches[t]) \cap sent[j].entries = {}
        /\ \A k \in 1..Len(sent) : k # j => sent[k].entries \cap sent[j].entries = {}

\* C18 witness: a batch that failed to encode on a tick has been deleted, and
\* run has exited after its drain
C18_Witness ==
    /\ pc = "done"
    /\ \E j \in Unencodable :
          /\ sent[j].cause = "tick"
          /\ sent[j].tenantID \notin DOMAIN batches

---------------------------------------------------------------------------
\* batches are never empty

\* C19: every batch in run's map has a stream and every stream has a value;
\* every batch handed to sendBatch has an entry count of at least 1, and every
\* request made has a stream, each with a value.
C19_NoEmptyBatch ==
    /\ \A t \in DOMAIN batches :
          /\ DOMAIN batches[t].streams # {}
          /\ \A k \in DOMAIN batches[t].streams : Len(batches[t].streams[k].Values) >= 1
          /\ createPushRequest(batches[t]).entriesCount >= 1
    /\ \A j \in 1..Len(sent) :
          /\ sent[j].entriesCount >= 1
          /\ sent[j].entries # {}
    /\ req # NoRequest =>
          /\ req.Body # {}
          /\ \A st \in req.Body : Len(st.Values) >= 1

\* C19 witness: one batch has been handed to sendBatch on overflow and the
\* batch that replaced it by the periodic check
C19_Witness ==
    /\ \E j \in 1..Len(sent) : sent[j].cause = "size" /\ sent[j].attempted
    /\ \E j \in 1..Len(sent) : sent[j].cause = "tick" /\ sent[j].attempted

---------------------------------------------------------------------------
\* shutdown

\* run has taken the quit case: it is in its deferred function or has exited
QuitTaken ==
    \/ pc \in {"drain", "done"}
    \/ pc \in {"send", "ret"} /\ ret = "drain"

\* the timestamps of the entries in run's map or handed to sendBatch
Batched ==
    UNION { BatchEntries(batches[t]) : t \in DOMAIN batches }
    \cup UNION { sent[j].entries : j \in 1..Len(sent) }

\* C20: once run has taken the quit case it receives no entry any more: an
\* entry a Handle caller is offering stays on offer (the call does not
\* return) and is in no batch and in no sendBatch call, the map of batches
\* does not change, and the only sendBatch calls are those of the deferred
\* loop, each on a batch of the map.
C20_NoAcceptAfterQuit ==
    [][ /\ QuitTaken =>
              /\ QuitTaken'
              /\ accepted' = accepted
              /\ entries \subseteq entries'
              /\ batches' = batches
              /\ Handoff =>
                    /\ sent'[Len(sent')].cause = "drain"
                    /\ tenant' \in DOMAIN batches
                    /\ sent'[Len(sent')].entries = BatchEntries(batches[tenant'])
        /\ QuitTaken' => \A e \in entries' : e.value[1] \notin Batched'
      ]_vars

\* C20 witness: run has exited after a drain that sent a batch, Stop has
\* returned, and a Handle caller is still offering its entry
C20_Witness ==
    /\ pc = "done"
    /\ StopReturned
    /\ DrainRecords # {}
    /\ entries # {}

====
